---- MODULE Spec2Model ----
(***************************************************************************)
(* Model of reth's discv5 crate: the discovery filters of filter.rs        *)
(* (MustIncludeChain, MustNotIncludeChains, MustIncludeFork), the merged   *)
(* discv5/discv4 update stream of lib.rs (UpdateStream,                    *)
(* MergedUpdateStream) and its handle Discv5WithDiscv4Downgrade; and the   *)
(* receipts log prune configuration of primitives/src/prune/mod.rs.        *)
(***************************************************************************)
EXTENDS Integers, Sequences, FiniteSets, TLC

VARIABLES
    enr,        \* filter.rs: the node record handed to filter(): key -> raw rlp
    flt,        \* filter.rs: the filter under evaluation (kind + configuration)
    outcome,    \* filter.rs: the FilterOutcome of the last filter() call
    evals,      \* filter.rs: how many times filter() was called on the record
    is_ok,      \* filter.rs: what is_ok() says of the last FilterOutcome
    discv5,     \* lib.rs: Discv5WithDiscv4Downgrade.discv5 (ban lists, local record, table)
    discv4,     \* lib.rs: Discv5WithDiscv4Downgrade.discv4 (ban lists, local record)
    hlog,       \* lib.rs: the calls the last handle operation made, in order
    hcall,      \* lib.rs: the last handle operation, its arguments and its result
    ncalls,     \* lib.rs: number of handle operations completed
    config,     \* prune/mod.rs: ReceiptsLogPruneConfig.0, address -> PruneMode
    tip,        \* prune/mod.rs: the tip argument of group_by_block
    pruned_block,  \* prune/mod.rs: the pruned_block argument of group_by_block
    grouped,    \* prune/mod.rs: what the last group_by_block call returned
    src5,       \* lib.rs: every discv5::Event sent on the mpsc channel so far
    taken5,     \* lib.rs: how many of them the discv5 ReceiverStream has yielded
    closed5,    \* lib.rs: the discv5 event sender has been dropped
    src4,       \* lib.rs: every DiscoveryUpdate sent by discv4 so far
    taken4,     \* lib.rs: how many of them the discv4 ReceiverStream has yielded
    closed4,    \* lib.rs: the discv4 update sender has been dropped
    inner,      \* lib.rs: MergedUpdateStream.inner, the Select's own state
    kbuckets_change,  \* lib.rs: the watch channel behind discv5_kbuckets_change_tx
    last,       \* lib.rs: what the last MergedUpdateStream::poll_next did
    emitted,    \* lib.rs: the items poll_next has returned Ready(Some(_)), in order
    wait5,      \* polls in a row that left a waiting discv5 event in its source
    wait4,      \* polls in a row that left a waiting discv4 update in its source
    sends_since_read  \* signals delivered since the discv4 receiver last looked

filterVars == <<enr, flt, outcome, evals, is_ok>>
handleVars == <<discv5, discv4, hlog, hcall, ncalls>>
mergeVars == <<src5, taken5, closed5, src4, taken4, closed4, inner,
               kbuckets_change, last, emitted, wait5, wait4, sends_since_read>>
pruneVars == <<config, tip, pruned_block, grouped>>
vars == <<filterVars, mergeVars, handleVars, pruneVars>>

(***************************************************************************)
(* Node records: key-value pairs, values are raw RLP bytes (0..255).       *)
(***************************************************************************)
ETH  == "eth"
ETH2 == "eth2"
OPSTACK == "opstack"
Keys == {ETH, ETH2, OPSTACK}

None == <<-1>>

\* enr.get_raw_rlp(key): Some(bytes) or None
get_raw_rlp(e, key) == e[key]

(***************************************************************************)
(* ForkId { hash: ForkHash([u8; 4]), next: u64 } and its RLP codec.        *)
(***************************************************************************)
H1 == <<252, 100, 236, 4>>
H2 == <<220, 228, 107, 185>>
ForkHashes == {H1, H2}
NextValues == {0, 100, 300}
ForkIds == [hash : ForkHashes, next : NextValues]

NoForkId == [hash |-> <<>>, next |-> 0]

\* RLP of an unsigned integer below 2^16
EncodeU64(n) ==
    IF n = 0 THEN <<128>>
    ELSE IF n < 128 THEN <<n>>
    ELSE IF n < 256 THEN <<129, n>>
    ELSE <<130, n \div 256, n % 256>>

\* RLP of a struct { hash, next }: list header, 4-byte string, integer
EncodeForkId(f) ==
    LET payload == <<132>> \o f.hash \o EncodeU64(f.next)
    IN  <<192 + Len(payload)>> \o payload

Drop(s, n) == SubSeq(s, n + 1, Len(s))

DecErr == [ok |-> FALSE, val |-> 0, rest |-> <<>>]

\* <[u8; 4] as Decodable>::decode: a string header of length exactly 4
DecodeForkHash(b) ==
    IF Len(b) < 5 \/ b[1] # 132 THEN DecErr
    ELSE [ok |-> TRUE, val |-> SubSeq(b, 2, 5), rest |-> Drop(b, 5)]

\* <u64 as Decodable>::decode: canonical big-endian integer, at most 8 bytes
DecodeU64(b) ==
    IF Len(b) = 0 THEN DecErr
    ELSE IF b[1] = 0 THEN DecErr                      \* leading zero
    ELSE IF b[1] < 128 THEN [ok |-> TRUE, val |-> b[1], rest |-> Drop(b, 1)]
    ELSE IF b[1] = 128 THEN [ok |-> TRUE, val |-> 0, rest |-> Drop(b, 1)]
    ELSE IF b[1] > 136 THEN DecErr                    \* overflow, long string or list
    ELSE LET n == b[1] - 128 IN
         IF Len(b) < 1 + n THEN DecErr                \* input too short
         ELSE IF b[2] = 0 THEN DecErr                 \* leading zero
         ELSE IF n = 1 /\ b[2] < 128 THEN DecErr      \* non canonical single byte
         ELSE IF n = 1 THEN [ok |-> TRUE, val |-> b[2], rest |-> Drop(b, 2)]
         ELSE IF n = 2 THEN [ok |-> TRUE, val |-> b[2] * 256 + b[3], rest |-> Drop(b, 3)]
         ELSE DecErr                                  \* beyond the modelled range

\* ForkId::decode(&mut bytes): list header, the two fields, and the payload
\* length must be what the fields consumed.  Bytes after the list are left
\* in the buffer and are no error.
DecodeForkId(b) ==
    IF Len(b) = 0 THEN DecErr
    ELSE IF b[1] < 192 THEN DecErr                    \* unexpected string
    ELSE IF b[1] > 247 THEN DecErr                    \* long list: non canonical here
    ELSE LET payload_length == b[1] - 192
             body == Drop(b, 1)
             h == DecodeForkHash(body)
             n == DecodeU64(h.rest)
         IN  IF Len(body) < payload_length THEN DecErr
             ELSE IF ~h.ok THEN DecErr
             ELSE IF ~n.ok THEN DecErr
             ELSE IF Len(body) - Len(n.rest) # payload_length THEN DecErr
             ELSE [ok |-> TRUE, val |-> [hash |-> h.val, next |-> n.val], rest |-> n.rest]

\* The raw values a record may carry under a key: the encodings of every
\* ForkId, encodings followed by further bytes, and malformed byte strings.
WellFormed == {EncodeForkId(f) : f \in ForkIds}
Trailing == {EncodeForkId([hash |-> H1, next |-> 300]) \o <<7>>}
Malformed ==
    { <<99, 97>>,                                   \* text, as Bytes::from("cancun")
      <<>>,                                         \* empty value
      <<200, 132, 252, 100, 236, 4, 130, 1>>,       \* truncated
      <<199, 132, 252, 100, 236, 4, 100, 7>>,       \* list length mismatch
      <<199, 132, 252, 100, 236, 4, 129, 100>>,     \* non canonical integer
      <<197, 131, 252, 100, 236, 100>> }            \* hash of 3 bytes
RawValues == WellFormed \cup Trailing \cup Malformed
Enrs == [Keys -> RawValues \cup {None}]

(***************************************************************************)
(* FilterOutcome: Ok | OkReturnForkId(ForkId) | Ignore { reason }.         *)
(* A reason is the formatted string, kept as the sequence of its pieces.   *)
(***************************************************************************)
NoReason == <<>>
Ok == [tag |-> "Ok", fork_id |-> NoForkId, reason |-> NoReason]
OkReturnForkId(f) == [tag |-> "OkReturnForkId", fork_id |-> f, reason |-> NoReason]
Ignore(r) == [tag |-> "Ignore", fork_id |-> NoForkId, reason |-> r]
NoOutcome == [tag |-> "NotEvaluated", fork_id |-> NoForkId, reason |-> NoReason]

\* variant: true for every outcome that lets the record pass
FilterOutcome_is_ok_any_pass(o) == o.tag \in {"Ok", "OkReturnForkId"}

\* FilterOutcome::is_ok: matches!(self, FilterOutcome::Ok)
FilterOutcome_is_ok(o) == o.tag = "Ok"

\* {:?} of a ForkId
DebugForkId(f) == <<"ForkId { hash: ForkHash(", ToString(f.hash), "), next: ", ToString(f.next), " }">>

(***************************************************************************)
(* MustIncludeChain { chain }                                              *)
(***************************************************************************)
MustIncludeChain_ignore_reason(chain) == <<chain, " fork required">>

\* variant: admits only an entry that decodes as a ForkId
MustIncludeChain_filter_decodable(chain, e) ==
    IF get_raw_rlp(e, chain) = None \/ ~DecodeForkId(get_raw_rlp(e, chain)).ok
    THEN Ignore(MustIncludeChain_ignore_reason(chain))
    ELSE Ok

MustIncludeChain_filter(chain, e) ==
    IF get_raw_rlp(e, chain) = None
    THEN Ignore(MustIncludeChain_ignore_reason(chain))
    ELSE Ok

(***************************************************************************)
(* MustNotIncludeChains { chains }: chains is the DashSet, kept as the     *)
(* sequence in which the set iterates (no duplicates, any order).          *)
(***************************************************************************)
RECURSIVE JoinComma(_)
JoinComma(cs) ==
    IF Len(cs) = 0 THEN <<>>
    ELSE IF Len(cs) = 1 THEN <<cs[1]>>
    ELSE <<cs[1], ",">> \o JoinComma(Tail(cs))

\* variant: the list of chains alone
MustNotIncludeChains_ignore_reason_list_only(chains) == JoinComma(chains)

MustNotIncludeChains_ignore_reason(chains) ==
    JoinComma(chains) \o <<" forks not allowed">>

\* the for loop of filter(): TRUE when some configured chain's filter is Ok
RECURSIVE AnyChainOk(_, _)
AnyChainOk(chains, e) ==
    IF Len(chains) = 0 THEN FALSE
    ELSE IF MustIncludeChain_filter(Head(chains), e).tag = "Ok" THEN TRUE
    ELSE AnyChainOk(Tail(chains), e)

\* variant: without the unconditional check of the eth2 key
MustNotIncludeChains_filter_configured_only(chains, e) ==
    IF AnyChainOk(chains, e)
    THEN Ignore(MustNotIncludeChains_ignore_reason(chains))
    ELSE Ok

MustNotIncludeChains_filter(chains, e) ==
    IF AnyChainOk(chains, e)
    THEN Ignore(MustNotIncludeChains_ignore_reason(chains))
    ELSE IF get_raw_rlp(e, ETH2) # None
    THEN Ignore(MustNotIncludeChains_ignore_reason(chains))
    ELSE Ok

(***************************************************************************)
(* MustIncludeFork { chain: MustIncludeChain, fork_id }                    *)
(***************************************************************************)
MustIncludeFork_ignore_reason(chain, fork_id) ==
    <<chain, " fork ">> \o DebugForkId(fork_id) \o <<" required">>

\* variant: admits every decodable ForkId, without comparing it
MustIncludeFork_filter_any_fork(chain, fork_id, e) ==
    LET fork_id_bytes == get_raw_rlp(e, chain) IN
    IF fork_id_bytes = None
    THEN Ignore(MustIncludeChain_ignore_reason(chain))
    ELSE LET d == DecodeForkId(fork_id_bytes) IN
         IF d.ok
         THEN OkReturnForkId(d.val)
         ELSE Ignore(MustIncludeFork_ignore_reason(chain, fork_id))

\* variant: the filter's own reason also for an absent entry
MustIncludeFork_filter_own_reason(chain, fork_id, e) ==
    LET fork_id_bytes == get_raw_rlp(e, chain) IN
    IF fork_id_bytes = None
    THEN Ignore(MustIncludeFork_ignore_reason(chain, fork_id))
    ELSE LET d == DecodeForkId(fork_id_bytes) IN
         IF d.ok /\ d.val = fork_id
         THEN OkReturnForkId(d.val)
         ELSE Ignore(MustIncludeFork_ignore_reason(chain, fork_id))

\* variant: the chain's reason also for an entry that does not match
MustIncludeFork_filter_chain_reason(chain, fork_id, e) ==
    LET fork_id_bytes == get_raw_rlp(e, chain) IN
    IF fork_id_bytes = None
    THEN Ignore(MustIncludeChain_ignore_reason(chain))
    ELSE LET d == DecodeForkId(fork_id_bytes) IN
         IF d.ok /\ d.val = fork_id
         THEN OkReturnForkId(d.val)
         ELSE Ignore(MustIncludeChain_ignore_reason(chain))

MustIncludeFork_filter(chain, fork_id, e) ==
    LET fork_id_bytes == get_raw_rlp(e, chain) IN
    IF fork_id_bytes = None
    THEN Ignore(MustIncludeChain_ignore_reason(chain))
    ELSE LET d == DecodeForkId(fork_id_bytes) IN
         IF d.ok /\ d.val = fork_id
         THEN OkReturnForkId(d.val)
         ELSE Ignore(MustIncludeFork_ignore_reason(chain, fork_id))

(***************************************************************************)
(* The filters under evaluation.                                           *)
(***************************************************************************)
NoDup(s) == \A i, j \in 1..Len(s) : i # j => s[i] # s[j]
ChainSeqs == {s \in UNION {[1..n -> Keys] : n \in 0..Cardinality(Keys)} : NoDup(s)}

Filters ==
    [kind : {"MustIncludeChain"}, chain : Keys, chains : {<<>>}, fork_id : {NoForkId}]
    \cup [kind : {"MustNotIncludeChains"}, chain : {ETH}, chains : ChainSeqs, fork_id : {NoForkId}]
    \cup [kind : {"MustIncludeFork"}, chain : Keys, chains : {<<>>}, fork_id : ForkIds]

\* FilterDiscovered::filter, dispatched on the implementing type
filter(f, e) ==
    IF f.kind = "MustIncludeChain" THEN MustIncludeChain_filter(f.chain, e)
    ELSE IF f.kind = "MustNotIncludeChains" THEN MustNotIncludeChains_filter(f.chains, e)
    ELSE MustIncludeFork_filter(f.chain, f.fork_id, e)

\* FilterDiscovered::ignore_reason, dispatched on the implementing type
ignore_reason(f) ==
    IF f.kind = "MustIncludeChain" THEN MustIncludeChain_ignore_reason(f.chain)
    ELSE IF f.kind = "MustNotIncludeChains" THEN MustNotIncludeChains_ignore_reason(f.chains)
    ELSE MustIncludeFork_ignore_reason(f.chain, f.fork_id)

(***************************************************************************)
(* Events.  A discv5::Event is SessionEstablished(enr, addr) or another    *)
(* kind; of the enr only the sockets IpMode::get_contactable_addr reads    *)
(* are kept.  n is the event's position in its source.                     *)
(***************************************************************************)
MaxEvents == 2

NoEvent == [kind |-> "-", udp4 |-> FALSE, udp6 |-> FALSE, n |-> 0]

V5Events(n) ==
    [kind : {"SessionEstablished"}, udp4 : BOOLEAN, udp6 : BOOLEAN, n : {n}]
    \cup [kind : {"Discovered"}, udp4 : {FALSE}, udp6 : {FALSE}, n : {n}]

V4Updates(n) == [kind : {"Added"}, udp4 : {FALSE}, udp6 : {FALSE}, n : {n}]

\* IpMode::Ip4.get_contactable_addr(enr).is_none()
Ip4_contactable_is_none(ev) == ~ev.udp4
\* IpMode::Ip6.get_contactable_addr(enr).is_none()
Ip6_contactable_is_none(ev) == ~ev.udp6

\* DiscoveryUpdateV5::from: V5(discv5::Event) | V4(DiscoveryUpdate)
DiscoveryUpdateV5_from(tag, ev) == [tag |-> tag, ev |-> ev]
NoItem == [tag |-> "-", ev |-> NoEvent]

\* Poll<Option<DiscoveryUpdateV5>>
Pending == [poll |-> "Pending", some |-> FALSE, item |-> NoItem]
ReadyNone == [poll |-> "Ready", some |-> FALSE, item |-> NoItem]
ReadySome(x) == [poll |-> "Ready", some |-> TRUE, item |-> x]

(***************************************************************************)
(* ReceiverStream over an mpsc receiver: the oldest unread item, end of    *)
(* stream once the sender is gone and nothing is left, Pending otherwise.  *)
(***************************************************************************)
\* variant: yields the newest unread item first
ReceiverStream_poll_next_newest_first(src, taken, closed) ==
    IF taken < Len(src) THEN [poll |-> "Ready", some |-> TRUE, item |-> src[Len(src) - taken]]
    ELSE IF closed THEN [poll |-> "Ready", some |-> FALSE, item |-> NoEvent]
    ELSE [poll |-> "Pending", some |-> FALSE, item |-> NoEvent]

ReceiverStream_poll_next(src, taken, closed) ==
    IF taken < Len(src) THEN [poll |-> "Ready", some |-> TRUE, item |-> src[taken + 1]]
    ELSE IF closed THEN [poll |-> "Ready", some |-> FALSE, item |-> NoEvent]
    ELSE [poll |-> "Pending", some |-> FALSE, item |-> NoEvent]

\* ready!(p) and .map(DiscoveryUpdateV5::from) on what the wrapped stream returned
UpdateStream_map(tag, p) ==
    IF p.poll = "Pending" THEN Pending
    ELSE IF p.some THEN ReadySome(DiscoveryUpdateV5_from(tag, p.item))
    ELSE ReadyNone

\* UpdateStream::poll_next: Poll::Ready(ready!(self.0.poll_next_unpin(cx)).map(From))
UpdateStream_poll_next(tag, src, taken, closed) ==
    UpdateStream_map(tag, ReceiverStream_poll_next(src, taken, closed))

(***************************************************************************)
(* futures::stream::select(discv5_event_stream, discv4_update_stream):     *)
(* the Left stream is discv5, the Right stream discv4.  inner.state is the *)
(* round robin's PollNext, inner.internal_state tells which side ended.    *)
(***************************************************************************)
Other(side) == IF side = "Left" THEN "Right" ELSE "Left"

\* variant: always the Left side first
round_robin_left_first(state) == [next_side |-> "Left", state |-> state]

\* PollNext::toggle: the side to poll first now; the other side next time
round_robin(state) == [next_side |-> state, state |-> Other(state)]

\* InternalState::finish
finish(internal_state, side) ==
    IF internal_state = "Start" /\ side = "Left" THEN "LeftFinished"
    ELSE IF internal_state = "Start" /\ side = "Right" THEN "RightFinished"
    ELSE IF internal_state = "LeftFinished" /\ side = "Right" THEN "BothFinished"
    ELSE IF internal_state = "RightFinished" /\ side = "Left" THEN "BothFinished"
    ELSE internal_state

poll_side(side) ==
    IF side = "Left" THEN UpdateStream_poll_next("V5", src5, taken5, closed5)
    ELSE UpdateStream_poll_next("V4", src4, taken4, closed4)

\* variant: the end of the side polled first ends the merged stream
poll_inner_match_first_end_ends(side, internal_state, first, second) ==
    IF first.poll = "Ready" /\ first.some
    THEN [res |-> first, internal_state |-> internal_state, from |-> side]
    ELSE IF first.poll = "Ready"
    THEN [res |-> ReadyNone, from |-> "-", internal_state |-> "BothFinished"]
    ELSE IF second.poll = "Ready" /\ ~second.some
    THEN [res |-> Pending, from |-> "-",
          internal_state |-> finish(internal_state, Other(side))]
    ELSE [res |-> second, internal_state |-> internal_state,
          from |-> IF second.poll = "Ready" THEN Other(side) ELSE "-"]

\* the match arms of poll_inner: `first` is what the side polled first
\* returned, `second` what the other side returns if it is polled at all
poll_inner_match(side, internal_state, first, second) ==
    IF first.poll = "Ready" /\ first.some
    THEN [res |-> first, internal_state |-> internal_state, from |-> side]
    ELSE IF first.poll = "Ready" /\ second.poll = "Ready" /\ ~second.some
    THEN [res |-> ReadyNone, from |-> "-",
          internal_state |-> finish(finish(internal_state, side), Other(side))]
    ELSE IF second.poll = "Ready" /\ ~second.some
    THEN [res |-> Pending, from |-> "-",
          internal_state |-> finish(internal_state, Other(side))]
    ELSE IF first.poll = "Ready"
    THEN [res |-> second, internal_state |-> finish(internal_state, side),
          from |-> IF second.poll = "Ready" THEN Other(side) ELSE "-"]
    ELSE [res |-> second, internal_state |-> internal_state,
          from |-> IF second.poll = "Ready" THEN Other(side) ELSE "-"]

\* poll_inner: poll `side` first and, unless it yields an item, the other
poll_inner(side, internal_state) ==
    poll_inner_match(side, internal_state, poll_side(side), poll_side(Other(side)))

\* the match arms for a side polled alone, once the other has ended
poll_remaining_match(side, internal_state, a) ==
    IF a.poll = "Ready" /\ ~a.some
    THEN [res |-> ReadyNone, internal_state |-> "BothFinished", from |-> "-"]
    ELSE [res |-> a, internal_state |-> internal_state,
          from |-> IF a.poll = "Ready" THEN side ELSE "-"]

poll_remaining(side, internal_state) ==
    poll_remaining_match(side, internal_state, poll_side(side))

\* the Select after a poll: its round robin state and what poll_inner left
Select_result(state, r) ==
    [res |-> r.res, from |-> r.from,
     inner |-> [state |-> state, internal_state |-> r.internal_state]]

\* Select::poll_next: the result, the Select's next state, and the side the
\* item was taken from
Select_poll_next(sel) ==
    IF sel.internal_state = "Start"
    THEN Select_result(round_robin(sel.state).state,
                       poll_inner(round_robin(sel.state).next_side, sel.internal_state))
    ELSE IF sel.internal_state = "LeftFinished"
    THEN Select_result(sel.state, poll_remaining("Right", sel.internal_state))
    ELSE IF sel.internal_state = "RightFinished"
    THEN Select_result(sel.state, poll_remaining("Left", sel.internal_state))
    ELSE [res |-> ReadyNone, from |-> "-", inner |-> sel]

(***************************************************************************)
(* The watch channel of discv5_kbuckets_change_tx: one slot.  unseen is    *)
(* the number of change notifications the receiver has still to observe,   *)
(* rx_alive whether a receiver remains.                                    *)
(***************************************************************************)
\* variant: a queue of notifications instead of one slot
notify_discv4_of_kbuckets_update_queued(ch) ==
    IF ~ch.rx_alive
    THEN [ok |-> FALSE, ch |-> ch]
    ELSE [ok |-> TRUE, ch |-> [ch EXCEPT !.unseen = @ + 1]]

\* notify_discv4_of_kbuckets_update: watch::Sender::send(()), an error and
\* no change when no receiver remains
notify_discv4_of_kbuckets_update(ch) ==
    IF ~ch.rx_alive
    THEN [ok |-> FALSE, ch |-> ch]
    ELSE [ok |-> TRUE, ch |-> [ch EXCEPT !.unseen = 1]]

(***************************************************************************)
(* MergedUpdateStream::poll_next                                           *)
(***************************************************************************)
\* variant: every discv5 event taken for a session establishment
IsSessionEstablished_any_v5(res) ==
    /\ res.poll = "Ready" /\ res.some
    /\ res.item.tag = "V5"

\* if let Some(V5(SessionEstablished(ref enr, _))) = update
IsSessionEstablished(res) ==
    /\ res.poll = "Ready" /\ res.some
    /\ res.item.tag = "V5" /\ res.item.ev.kind = "SessionEstablished"

\* the branch of lines 195-200: no contactable IPv4 socket, but an IPv6 one
Deferred(res) ==
    /\ IsSessionEstablished(res)
    /\ Ip4_contactable_is_none(res.item.ev)
    /\ ~Ip6_contactable_is_none(res.item.ev)

\* what one call does: obtained is what the Select returned, ret what the
\* call returns, woke whether cx.waker() was woken by the call, sends the
\* number of sends on the watch channel, send_ok the outcome of the send
\* variant: the signal is sent before the reachability check
poll_next_body_notify_first(s, ch, sent) ==
    IF s.res.poll = "Pending"
    THEN [ret |-> Pending, obtained |-> s.res, from |-> s.from, inner |-> s.inner,
          woke |-> FALSE, sends |-> 0, send_ok |-> TRUE, ch |-> ch]
    ELSE IF Deferred(s.res)
    THEN [ret |-> Pending, obtained |-> s.res, from |-> s.from, inner |-> s.inner,
          woke |-> TRUE, sends |-> 1, send_ok |-> sent.ok, ch |-> sent.ch]
    ELSE IF IsSessionEstablished(s.res)
    THEN [ret |-> s.res, obtained |-> s.res, from |-> s.from, inner |-> s.inner,
          woke |-> FALSE, sends |-> 1, send_ok |-> sent.ok, ch |-> sent.ch]
    ELSE [ret |-> s.res, obtained |-> s.res, from |-> s.from, inner |-> s.inner,
          woke |-> FALSE, sends |-> 0, send_ok |-> TRUE, ch |-> ch]

\* variant: a failed send ends the call without the event
poll_next_body_send_error_fatal(s, ch, sent) ==
    IF s.res.poll = "Pending"
    THEN [ret |-> Pending, obtained |-> s.res, from |-> s.from, inner |-> s.inner,
          woke |-> FALSE, sends |-> 0, send_ok |-> TRUE, ch |-> ch]
    ELSE IF Deferred(s.res)
    THEN [ret |-> Pending, obtained |-> s.res, from |-> s.from, inner |-> s.inner,
          woke |-> TRUE, sends |-> 0, send_ok |-> TRUE, ch |-> ch]
    ELSE IF IsSessionEstablished(s.res)
    THEN [ret |-> IF sent.ok THEN s.res ELSE Pending, obtained |-> s.res,
          from |-> s.from, inner |-> s.inner,
          woke |-> FALSE, sends |-> 1, send_ok |-> sent.ok, ch |-> sent.ch]
    ELSE [ret |-> s.res, obtained |-> s.res, from |-> s.from, inner |-> s.inner,
          woke |-> FALSE, sends |-> 0, send_ok |-> TRUE, ch |-> ch]

\* variant: the event without an IPv4 socket is handed to the caller
poll_next_body_emit_deferred(s, ch, sent) ==
    IF s.res.poll = "Pending"
    THEN [ret |-> Pending, obtained |-> s.res, from |-> s.from, inner |-> s.inner,
          woke |-> FALSE, sends |-> 0, send_ok |-> TRUE, ch |-> ch]
    ELSE IF Deferred(s.res)
    THEN [ret |-> s.res, obtained |-> s.res, from |-> s.from, inner |-> s.inner,
          woke |-> TRUE, sends |-> 0, send_ok |-> TRUE, ch |-> ch]
    ELSE IF IsSessionEstablished(s.res)
    THEN [ret |-> s.res, obtained |-> s.res, from |-> s.from, inner |-> s.inner,
          woke |-> FALSE, sends |-> 1, send_ok |-> sent.ok, ch |-> sent.ch]
    ELSE [ret |-> s.res, obtained |-> s.res, from |-> s.from, inner |-> s.inner,
          woke |-> FALSE, sends |-> 0, send_ok |-> TRUE, ch |-> ch]

\* the body of poll_next after `let update = ready!(self.inner.poll_next_unpin(cx))`:
\* s is what the Select did, sent what a send on the watch channel would do
poll_next_body(s, ch, sent) ==
    IF s.res.poll = "Pending"
    THEN [ret |-> Pending, obtained |-> s.res, from |-> s.from, inner |-> s.inner,
          woke |-> FALSE, sends |-> 0, send_ok |-> TRUE, ch |-> ch]
    ELSE IF Deferred(s.res)
    THEN [ret |-> Pending, obtained |-> s.res, from |-> s.from, inner |-> s.inner,
          woke |-> TRUE, sends |-> 0, send_ok |-> TRUE, ch |-> ch]
    ELSE IF IsSessionEstablished(s.res)
    THEN [ret |-> s.res, obtained |-> s.res, from |-> s.from, inner |-> s.inner,
          woke |-> FALSE, sends |-> 1, send_ok |-> sent.ok, ch |-> sent.ch]
    ELSE [ret |-> s.res, obtained |-> s.res, from |-> s.from, inner |-> s.inner,
          woke |-> FALSE, sends |-> 0, send_ok |-> TRUE, ch |-> ch]

MergedUpdateStream_poll_next(sel, ch) ==
    poll_next_body(Select_poll_next(sel), ch, notify_discv4_of_kbuckets_update(ch))

NoPoll == [ret |-> Pending, obtained |-> Pending, woke |-> FALSE, sends |-> 0,
           send_ok |-> TRUE, polled |-> FALSE]

InitMerge ==
    /\ src5 = <<>> /\ taken5 = 0 /\ closed5 = FALSE
    /\ src4 = <<>> /\ taken4 = 0 /\ closed4 = FALSE
    /\ inner = [state |-> "Left", internal_state |-> "Start"]
    /\ kbuckets_change = [unseen |-> 0, rx_alive |-> TRUE]
    /\ last = NoPoll
    /\ emitted = <<>>
    /\ wait5 = 0 /\ wait4 = 0
    /\ sends_since_read = 0

\* discv5 sends an event on its mpsc channel
Discv5Send ==
    /\ ~closed5 /\ Len(src5) < MaxEvents
    /\ \E ev \in V5Events(Len(src5) + 1) : src5' = Append(src5, ev)
    /\ UNCHANGED <<taken5, closed5, src4, taken4, closed4, inner, kbuckets_change,
                   last, emitted, wait5, wait4, sends_since_read>>
    /\ UNCHANGED <<filterVars, handleVars, pruneVars>>

\* discv4 sends an update on its channel
Discv4Send ==
    /\ ~closed4 /\ Len(src4) < MaxEvents
    /\ \E ev \in V4Updates(Len(src4) + 1) : src4' = Append(src4, ev)
    /\ UNCHANGED <<src5, taken5, closed5, taken4, closed4, inner, kbuckets_change,
                   last, emitted, wait5, wait4, sends_since_read>>
    /\ UNCHANGED <<filterVars, handleVars, pruneVars>>

\* the discv5 event sender is dropped
Discv5Close ==
    /\ ~closed5
    /\ closed5' = TRUE
    /\ UNCHANGED <<src5, taken5, src4, taken4, closed4, inner, kbuckets_change,
                   last, emitted, wait5, wait4, sends_since_read>>
    /\ UNCHANGED <<filterVars, handleVars, pruneVars>>

\* the discv4 update sender is dropped
Discv4Close ==
    /\ ~closed4
    /\ closed4' = TRUE
    /\ UNCHANGED <<src5, taken5, closed5, src4, taken4, inner, kbuckets_change,
                   last, emitted, wait5, wait4, sends_since_read>>
    /\ UNCHANGED <<filterVars, handleVars, pruneVars>>

\* the caller polls the merged stream once
Poll ==
    \E r \in {MergedUpdateStream_poll_next(inner, kbuckets_change)} :
    /\ inner' = r.inner
    /\ taken5' = IF r.from = "Left" THEN taken5 + 1 ELSE taken5
    /\ taken4' = IF r.from = "Right" THEN taken4 + 1 ELSE taken4
    /\ kbuckets_change' = r.ch
    /\ last' = [ret |-> r.ret, obtained |-> r.obtained, woke |-> r.woke,
                sends |-> r.sends, send_ok |-> r.send_ok, polled |-> TRUE]
    /\ emitted' = IF r.ret.poll = "Ready" /\ r.ret.some
                  THEN Append(emitted, r.ret.item) ELSE emitted
    /\ wait5' = IF r.from # "Left" /\ taken5 < Len(src5) THEN wait5 + 1 ELSE 0
    /\ wait4' = IF r.from # "Right" /\ taken4 < Len(src4) THEN wait4 + 1 ELSE 0
    /\ sends_since_read' = sends_since_read + (IF r.send_ok THEN r.sends ELSE 0)
    /\ UNCHANGED <<src5, closed5, src4, closed4>>
    /\ UNCHANGED <<filterVars, handleVars, pruneVars>>

\* discv4 looks at its watch receiver and marks the value seen
Discv4ReadSignal ==
    /\ kbuckets_change.rx_alive
    /\ kbuckets_change' = [kbuckets_change EXCEPT !.unseen = 0]
    /\ sends_since_read' = 0
    /\ UNCHANGED <<src5, taken5, closed5, src4, taken4, closed4, inner,
                   last, emitted, wait5, wait4>>
    /\ UNCHANGED <<filterVars, handleVars, pruneVars>>

\* discv4 shuts down first: its watch receiver is dropped
Discv4DropReceiver ==
    /\ kbuckets_change.rx_alive
    /\ kbuckets_change' = [kbuckets_change EXCEPT !.rx_alive = FALSE]
    /\ UNCHANGED <<src5, taken5, closed5, src4, taken4, closed4, inner,
                   last, emitted, wait5, wait4, sends_since_read>>
    /\ UNCHANGED <<filterVars, handleVars, pruneVars>>

(***************************************************************************)
(* Discv5WithDiscv4Downgrade: the handle that forwards table, local record *)
(* and ban operations to discv5 and to discv4.                             *)
(***************************************************************************)

\* PeerId is an uncompressed secp256k1 point <<x, y>>; the model works in the
\* curve y^2 = x^3 + 7 over a small prime field
FieldP == 7

OnCurve(peer_id) ==
    (peer_id[2] * peer_id[2]) % FieldP =
        (peer_id[1] * peer_id[1] * peer_id[1] + 7) % FieldP

NoPeerId == <<-1, -1>>
NoNodeId == <<-1, -1>>

\* two points with the same x, and a pair that is no point of the curve
PeerIds == {<<1, 1>>, <<1, 6>>, <<3, 2>>}

\* enr::uncompressed_to_compressed_id: the point is parsed as a public key
\* and written in compressed form, the parity tag of y followed by x
uncompressed_to_compressed_id(peer_id) ==
    IF OnCurve(peer_id)
    THEN [ok |-> TRUE, val |-> <<2 + (peer_id[2] % 2), peer_id[1]>>]
    ELSE [ok |-> FALSE, val |-> NoNodeId]

IpAddrs == {"10.0.0.1", "fe80::1"}

\* keys of set_eip868_in_local_enr as bytes: "e", "\u{e9}", 0xff alone, and
\* "e" followed by a lead byte without its continuation
EnrKeys == {<<101>>, <<195, 169>>, <<255>>, <<101, 195>>}
EnrValues == {"rlp1", "rlp2"}

\* std::str::from_utf8(&key).is_ok(), for keys made of one- and two-byte forms
RECURSIVE from_utf8_is_ok(_)
from_utf8_is_ok(b) ==
    IF b = <<>> THEN TRUE
    ELSE IF b[1] < 128 THEN from_utf8_is_ok(Tail(b))
    ELSE IF b[1] \in 194..223 /\ Len(b) >= 2 /\ b[2] \in 128..191
    THEN from_utf8_is_ok(Tail(Tail(b)))
    ELSE FALSE

\* NodeFromExternalSource: a NodeRecord, or an Enr signed under some scheme
NodeRecords ==
    {[variant |-> "Enr", scheme |-> "secp256k1", n |-> 1],
     [variant |-> "Enr", scheme |-> "unsupported", n |-> 2],
     [variant |-> "NodeRecord", scheme |-> "-", n |-> 3]}
NoNodeRecord == [variant |-> "-", scheme |-> "-", n |-> 0]

\* TryFrom<Enr<SecretKey>> for EnrCombinedKeyWrapper: the record re-read as a
\* discv5 record under the combined key; fails on an incompatible scheme
EnrCombinedKeyWrapper_try_from(r) ==
    IF r.scheme = "secp256k1"
    THEN [ok |-> TRUE, val |-> [variant |-> "Enr", scheme |-> "combined", n |-> r.n]]
    ELSE [ok |-> FALSE, val |-> NoNodeRecord]

\* one call on a subsystem, as the handle makes it
NoArgs == [peer |-> NoPeerId, node |-> NoNodeId, ip |-> "-", key |-> <<>>,
           val |-> "-", rec |-> NoNodeRecord]
Call(sys, op, args) == [sys |-> sys, op |-> op, args |-> args]

\* a map with the entry of key k set to v
Insert(map, k, v) == {e \in map : e[1] # k} \cup {<<k, v>>}

\* discv5::Discv5 as the handle uses it
Discv5_ban_node(d5, node_id) == [d5 EXCEPT !.banned_nodes = @ \cup {node_id}]
Discv5_ban_ip(d5, ip) == [d5 EXCEPT !.banned_ips = @ \cup {ip}]
\* enr_insert updates the local record unless the library refuses (lib_ok)
Discv5_enr_insert(d5, key_str, rlp, lib_ok) ==
    IF lib_ok THEN [d5 EXCEPT !.local_enr = Insert(@, key_str, rlp)] ELSE d5
\* add_enr puts the record in the table unless the library refuses (lib_ok)
Discv5_add_enr(d5, e, lib_ok) ==
    IF lib_ok THEN [d5 EXCEPT !.kbuckets = @ \cup {e}] ELSE d5

\* reth_discv4::Discv4 as the handle uses it
Discv4_ban_peer_by_ip_and_node_id(d4, peer_id, ip) ==
    [d4 EXCEPT !.banned_ids = @ \cup {peer_id}, !.banned_ips = @ \cup {ip}]
Discv4_ban_peer_by_ip(d4, ip) == [d4 EXCEPT !.banned_ips = @ \cup {ip}]
Discv4_set_eip868_in_local_enr(d4, key, rlp) ==
    [d4 EXCEPT !.local_enr = Insert(@, key, rlp)]

\* what a handle operation leaves: both subsystems, the calls made, the result
Done(d5, d4, log, ret) == [discv5 |-> d5, discv4 |-> d4, log |-> log, ret |-> ret]

\* variant: a failed conversion is dropped like a failed insert
add_node_to_routing_table_swallow_all(d5, d4, node_record, conv, lib_ok) ==
    IF node_record.variant = "Enr"
    THEN IF ~conv.ok
         THEN Done(d5, d4, <<>>, "Ok")
         ELSE Done(Discv5_add_enr(d5, conv.val, lib_ok), d4,
                   <<Call("discv5", "add_enr", [NoArgs EXCEPT !.rec = conv.val])>>,
                   "Ok")
    ELSE Done(d5, d4, <<>>, "Ok")

\* lines 70-81; conv is the result of enr.try_into()
add_node_to_routing_table(d5, d4, node_record, conv, lib_ok) ==
    IF node_record.variant = "Enr"
    THEN IF ~conv.ok
         THEN Done(d5, d4, <<>>, "Err")                       \* `?` of line 75
         ELSE Done(Discv5_add_enr(d5, conv.val, lib_ok), d4,
                   <<Call("discv5", "add_enr", [NoArgs EXCEPT !.rec = conv.val])>>,
                   "Ok")
    ELSE Done(d5, d4, <<>>, "Ok")

\* variant: an invalid key ends the operation before discv4 is reached
set_eip868_in_local_enr_valid_keys_only(d5, d4, key, rlp, lib_ok) ==
    IF from_utf8_is_ok(key)
    THEN Done(Discv5_enr_insert(d5, key, rlp, lib_ok),
              Discv4_set_eip868_in_local_enr(d4, key, rlp),
              <<Call("discv5", "enr_insert", [NoArgs EXCEPT !.key = key, !.val = rlp]),
                Call("discv4", "set_eip868_in_local_enr",
                     [NoArgs EXCEPT !.key = key, !.val = rlp])>>,
              "()")
    ELSE Done(d5, d4, <<>>, "()")

\* lines 83-89
set_eip868_in_local_enr(d5, d4, key, rlp, lib_ok) ==
    IF from_utf8_is_ok(key)
    THEN Done(Discv5_enr_insert(d5, key, rlp, lib_ok),
              Discv4_set_eip868_in_local_enr(d4, key, rlp),
              <<Call("discv5", "enr_insert", [NoArgs EXCEPT !.key = key, !.val = rlp]),
                Call("discv4", "set_eip868_in_local_enr",
                     [NoArgs EXCEPT !.key = key, !.val = rlp])>>,
              "()")
    ELSE Done(d5,
              Discv4_set_eip868_in_local_enr(d4, key, rlp),
              <<Call("discv4", "set_eip868_in_local_enr",
                     [NoArgs EXCEPT !.key = key, !.val = rlp])>>,
              "()")

\* variant: a failed translation ends the modern part, the address included
ban_peer_by_ip_and_node_id_all_or_nothing(d5, d4, peer_id, ip, conv) ==
    IF conv.ok
    THEN Done(Discv5_ban_ip(Discv5_ban_node(d5, conv.val), ip),
              Discv4_ban_peer_by_ip_and_node_id(d4, peer_id, ip),
              <<Call("discv5", "ban_node", [NoArgs EXCEPT !.node = conv.val]),
                Call("discv5", "ban_ip", [NoArgs EXCEPT !.ip = ip]),
                Call("discv4", "ban_peer_by_ip_and_node_id",
                     [NoArgs EXCEPT !.peer = peer_id, !.ip = ip])>>,
              "()")
    ELSE Done(d5,
              Discv4_ban_peer_by_ip_and_node_id(d4, peer_id, ip),
              <<Call("discv4", "ban_peer_by_ip_and_node_id",
                     [NoArgs EXCEPT !.peer = peer_id, !.ip = ip])>>,
              "()")

\* lines 97-103; conv is the result of uncompressed_to_compressed_id(peer_id)
ban_peer_by_ip_and_node_id(d5, d4, peer_id, ip, conv) ==
    IF conv.ok
    THEN Done(Discv5_ban_ip(Discv5_ban_node(d5, conv.val), ip),
              Discv4_ban_peer_by_ip_and_node_id(d4, peer_id, ip),
              <<Call("discv5", "ban_node", [NoArgs EXCEPT !.node = conv.val]),
                Call("discv5", "ban_ip", [NoArgs EXCEPT !.ip = ip]),
                Call("discv4", "ban_peer_by_ip_and_node_id",
                     [NoArgs EXCEPT !.peer = peer_id, !.ip = ip])>>,
              "()")
    ELSE Done(Discv5_ban_ip(d5, ip),
              Discv4_ban_peer_by_ip_and_node_id(d4, peer_id, ip),
              <<Call("discv5", "ban_ip", [NoArgs EXCEPT !.ip = ip]),
                Call("discv4", "ban_peer_by_ip_and_node_id",
                     [NoArgs EXCEPT !.peer = peer_id, !.ip = ip])>>,
              "()")

\* variant: the address is banned in discv4 alone
ban_peer_by_ip_legacy_only(d5, d4, ip) ==
    Done(d5, Discv4_ban_peer_by_ip(d4, ip),
         <<Call("discv4", "ban_peer_by_ip", [NoArgs EXCEPT !.ip = ip])>>,
         "()")

\* lines 105-108
ban_peer_by_ip(d5, d4, ip) ==
    Done(Discv5_ban_ip(d5, ip), Discv4_ban_peer_by_ip(d4, ip),
         <<Call("discv5", "ban_ip", [NoArgs EXCEPT !.ip = ip]),
           Call("discv4", "ban_peer_by_ip", [NoArgs EXCEPT !.ip = ip])>>,
         "()")

MaxCalls == 3

NoCall == [op |-> "-", args |-> NoArgs, lib_ok |-> TRUE, ret |-> "-"]

\* Discv5WithDiscv4Downgrade::new over two subsystems that have banned nobody
InitHandle ==
    /\ discv5 = [banned_nodes |-> {}, banned_ips |-> {}, local_enr |-> {},
                 kbuckets |-> {}]
    /\ discv4 = [banned_ids |-> {}, banned_ips |-> {}, local_enr |-> {}]
    /\ hlog = <<>>
    /\ hcall = NoCall
    /\ ncalls = 0

\* the state after a handle operation op(args) that did r
Completed(op, args, lib_ok, r) ==
    /\ ncalls < MaxCalls
    /\ discv5' = r.discv5
    /\ discv4' = r.discv4
    /\ hlog' = r.log
    /\ hcall' = [op |-> op, args |-> args, lib_ok |-> lib_ok, ret |-> r.ret]
    /\ ncalls' = ncalls + 1
    /\ UNCHANGED <<filterVars, mergeVars, pruneVars>>

AddNodeToRoutingTable ==
    \E node_record \in NodeRecords, lib_ok \in BOOLEAN :
    \E r \in {add_node_to_routing_table(discv5, discv4, node_record,
                  EnrCombinedKeyWrapper_try_from(node_record), lib_ok)} :
        Completed("add_node_to_routing_table",
                  [NoArgs EXCEPT !.rec = node_record], lib_ok, r)

SetEip868InLocalEnr ==
    \E key \in EnrKeys, rlp \in EnrValues, lib_ok \in BOOLEAN :
    \E r \in {set_eip868_in_local_enr(discv5, discv4, key, rlp, lib_ok)} :
        Completed("set_eip868_in_local_enr",
                  [NoArgs EXCEPT !.key = key, !.val = rlp], lib_ok, r)

BanPeerByIpAndNodeId ==
    \E peer_id \in PeerIds, ip \in IpAddrs :
    \E r \in {ban_peer_by_ip_and_node_id(discv5, discv4, peer_id, ip,
                  uncompressed_to_compressed_id(peer_id))} :
        Completed("ban_peer_by_ip_and_node_id",
                  [NoArgs EXCEPT !.peer = peer_id, !.ip = ip], TRUE, r)

BanPeerByIp ==
    \E ip \in IpAddrs :
    \E r \in {ban_peer_by_ip(discv5, discv4, ip)} :
        Completed("ban_peer_by_ip", [NoArgs EXCEPT !.ip = ip], TRUE, r)

(***************************************************************************)
(* ReceiptsLogPruneConfig::group_by_block of primitives/src/prune/mod.rs.  *)
(***************************************************************************)
MaxTip == 3

\* the addresses in the order of the BTreeMap's iteration
AddressList == <<"0xa1", "0xb2", "0xc3">>
Addresses == {AddressList[i] : i \in 1..Len(AddressList)}

\* Result<Option<(BlockNumber, PruneMode)>, PruneSegmentError>
TargetErr == [ok |-> FALSE, some |-> FALSE, block |-> 0]
TargetNone == [ok |-> TRUE, some |-> FALSE, block |-> 0]
TargetSome(b) == [ok |-> TRUE, some |-> TRUE, block |-> b]

\* PruneMode: mode.rs is not among the sources, so a mode is given by what
\* its prune_target_block returns for ContractLogs at the tip: an error,
\* nothing to prune yet, or a block not above the tip
PruneModesAt(t) ==
    {[target |-> x] : x \in {TargetErr, TargetNone} \cup {TargetSome(b) : b \in 0..t}}

\* mode.prune_target_block(tip, PruneSegment::ContractLogs, PrunePurpose::User)
prune_target_block(mode, t) == mode.target

\* .map(|(block, _)| block).unwrap_or_default()
unwrap_or_default(target) == IF target.some THEN target.block ELSE 0

\* Option<BlockNumber>: None is -1
NoBlock == -1
PrunedBlock_unwrap_or_default(pb) == IF pb = NoBlock THEN 0 ELSE pb

\* u64::max
Max(a, b) == IF a >= b THEN a ELSE b

\* BTreeMap::new()
EmptyMap == [k \in {} |-> <<>>]

\* map.entry(block).or_insert_with(Vec::new).push(address)
entry_push(map, block, address) ==
    IF block \in DOMAIN map
    THEN [map EXCEPT ![block] = Append(@, address)]
    ELSE [k \in DOMAIN map \cup {block} |->
              IF k = block THEN <<address>> ELSE map[k]]

\* Result<BTreeMap<BlockNumber, Vec<&Address>>, PruneSegmentError>
GroupOk(map) == [called |-> TRUE, ok |-> TRUE, map |-> map]
GroupErr == [called |-> TRUE, ok |-> FALSE, map |-> EmptyMap]
NotGrouped == [called |-> FALSE, ok |-> FALSE, map |-> EmptyMap]

\* variant: the key is the target's successor alone
RECURSIVE group_loop_target_only(_, _, _, _, _)
group_loop_target_only(entries, cfg, t, pb, map) ==
    IF entries = <<>> THEN GroupOk(map)
    ELSE IF ~prune_target_block(cfg[Head(entries)], t).ok THEN GroupErr
    ELSE group_loop_target_only(Tail(entries), cfg, t, pb,
             entry_push(map,
                 unwrap_or_default(prune_target_block(cfg[Head(entries)], t)) + 1,
                 Head(entries)))

\* the loop of lines 46-62 over the entries that remain, pb the unwrapped
\* pruned_block; `?` returns the error of the first mode that has one
RECURSIVE group_loop(_, _, _, _, _)
group_loop(entries, cfg, t, pb, map) ==
    IF entries = <<>> THEN GroupOk(map)
    ELSE IF ~prune_target_block(cfg[Head(entries)], t).ok THEN GroupErr
    ELSE group_loop(Tail(entries), cfg, t, pb,
             entry_push(map,
                 Max(pb + 1,
                     unwrap_or_default(prune_target_block(cfg[Head(entries)], t)) + 1),
                 Head(entries)))

\* self.0.iter(): the configured addresses in ascending order
iter(cfg) == SelectSeq(AddressList, LAMBDA a : a \in DOMAIN cfg)

\* lines 39-65
group_by_block(cfg, t, pb) ==
    group_loop(iter(cfg), cfg, t, PrunedBlock_unwrap_or_default(pb), EmptyMap)

InitPrune ==
    /\ tip \in 0..MaxTip
    /\ pruned_block \in {NoBlock} \cup 0..MaxTip
    /\ config \in UNION {[S -> PruneModesAt(tip)] : S \in SUBSET Addresses}
    /\ grouped = NotGrouped

\* the state of the prune part while another part is looked at
IdlePrune ==
    /\ tip = 0
    /\ pruned_block = NoBlock
    /\ config = EmptyMap
    /\ grouped = NotGrouped

GroupByBlock ==
    /\ ~grouped.called
    /\ grouped' = group_by_block(config, tip, pruned_block)
    /\ UNCHANGED <<config, tip, pruned_block>>
    /\ UNCHANGED <<filterVars, mergeVars, handleVars>>

MaxEvals == 2

InitFilter ==
    /\ enr \in Enrs
    /\ flt \in Filters
    /\ outcome = NoOutcome
    /\ evals = 0
    /\ is_ok = FALSE
    /\ InitMerge
    /\ InitHandle
    /\ IdlePrune

\* variant: an evaluation that takes the first chain out of the filter's set
Evaluate_consuming ==
    /\ evals < MaxEvals
    /\ outcome' = filter(flt, enr)
    /\ evals' = evals + 1
    /\ is_ok' = FilterOutcome_is_ok(filter(flt, enr))
    /\ flt' = [flt EXCEPT !.chains = IF Len(@) = 0 THEN @ ELSE Tail(@)]
    /\ UNCHANGED enr
    /\ UNCHANGED <<mergeVars, handleVars, pruneVars>>

\* a caller evaluates the filter on the record: filter(&self, enr: &Enr)
Evaluate ==
    /\ evals < MaxEvals
    /\ outcome' = filter(flt, enr)
    /\ evals' = evals + 1
    /\ is_ok' = FilterOutcome_is_ok(filter(flt, enr))
    /\ UNCHANGED <<enr, flt>>
    /\ UNCHANGED <<mergeVars, handleVars, pruneVars>>

NextFilter == Evaluate

SpecFilter == InitFilter /\ [][NextFilter]_vars

InitStream ==
    /\ enr = [k \in Keys |-> None]
    /\ flt = [kind |-> "MustIncludeChain", chain |-> ETH, chains |-> <<>>, fork_id |-> NoForkId]
    /\ outcome = NoOutcome
    /\ evals = 0
    /\ is_ok = FALSE
    /\ InitMerge
    /\ InitHandle
    /\ IdlePrune

NextMerge ==
    \/ Discv5Send
    \/ Discv4Send
    \/ Discv5Close
    \/ Discv4Close
    \/ Poll
    \/ Discv4ReadSignal
    \/ Discv4DropReceiver

SpecMerge == InitStream /\ [][NextMerge]_vars

\* the filter part at rest: one record and one filter, not evaluated
IdleFilter ==
    /\ enr = [k \in Keys |-> None]
    /\ flt = [kind |-> "MustIncludeChain", chain |-> ETH, chains |-> <<>>, fork_id |-> NoForkId]
    /\ outcome = NoOutcome
    /\ evals = 0
    /\ is_ok = FALSE

InitHandleOnly ==
    /\ IdleFilter
    /\ InitMerge
    /\ InitHandle
    /\ IdlePrune

NextHandle ==
    \/ AddNodeToRoutingTable
    \/ SetEip868InLocalEnr
    \/ BanPeerByIpAndNodeId
    \/ BanPeerByIp

SpecHandle == InitHandleOnly /\ [][NextHandle]_vars

InitPruneOnly ==
    /\ IdleFilter
    /\ InitMerge
    /\ InitHandle
    /\ InitPrune

NextPrune == GroupByBlock

SpecPrune == InitPruneOnly /\ [][NextPrune]_vars

(***************************************************************************)
(* Properties of the filters.                                              *)
(***************************************************************************)
Evaluated == outcome # NoOutcome

\* the value starts with the canonical encoding of f (bytes may follow it)
IsEncodingOf(v, f) ==
    LET enc == EncodeForkId(f) IN
    /\ v # None
    /\ Len(v) >= Len(enc)
    /\ SubSeq(v, 1, Len(enc)) = enc

\* C1: MustIncludeFork.filter returns OkReturnForkId(f) exactly when the
\* record's entry under the configured chain is an encoding of a ForkId f
\* equal to the required one, carrying that f; in every other case (entry
\* missing, not decodable, another hash or next) it returns Ignore; never Ok.
C1_ForkFilterExact ==
    (flt.kind = "MustIncludeFork" /\ Evaluated) =>
        LET v == get_raw_rlp(enr, flt.chain) IN
        /\ outcome.tag # "Ok"
        /\ IsEncodingOf(v, flt.fork_id) => outcome = OkReturnForkId(flt.fork_id)
        /\ ~IsEncodingOf(v, flt.fork_id) => outcome.tag = "Ignore"
        /\ outcome.tag = "OkReturnForkId" =>
               \E f \in ForkIds : IsEncodingOf(v, f) /\ f = flt.fork_id /\ outcome.fork_id = f

\* a record whose entry encodes the required ForkId has been admitted, with
\* the ForkId decoded from the entry
C1_Witness ==
    /\ flt.kind = "MustIncludeFork"
    /\ get_raw_rlp(enr, flt.chain) = EncodeForkId(flt.fork_id)
    /\ flt.fork_id.next = 300
    /\ outcome = OkReturnForkId(flt.fork_id)

\* C2: MustNotIncludeChains.filter returns Ignore when the record has an
\* entry for any configured chain, and also when it has an entry for eth2
\* although eth2 is not configured; it returns Ok exactly when the record
\* has neither.
C2_MustNotIncludeExact ==
    (flt.kind = "MustNotIncludeChains" /\ Evaluated) =>
        LET configured == \E i \in 1..Len(flt.chains) : enr[flt.chains[i]] # None
            beacon == enr[ETH2] # None
        IN  /\ (configured \/ beacon) => outcome.tag = "Ignore"
            /\ ~(configured \/ beacon) => outcome = Ok
            /\ outcome.tag \in {"Ok", "Ignore"}

\* eth2 is not configured, the record carries only eth2, and it was ignored
C2_Witness ==
    /\ flt.kind = "MustNotIncludeChains"
    /\ \A i \in 1..Len(flt.chains) : flt.chains[i] # ETH2 /\ enr[flt.chains[i]] = None
    /\ enr[ETH2] # None
    /\ outcome.tag = "Ignore"

\* C3: MustIncludeChain.filter returns Ok exactly when the record has an
\* entry under the configured key, whatever its value; when the entry is
\* absent it returns Ignore with the reason "<chain> fork required".
C3_MustIncludeChainExact ==
    (flt.kind = "MustIncludeChain" /\ Evaluated) =>
        /\ enr[flt.chain] # None => outcome = Ok
        /\ enr[flt.chain] = None => outcome = Ignore(<<flt.chain, " fork required">>)

\* an entry of arbitrary bytes has been admitted
C3_Witness ==
    /\ flt.kind = "MustIncludeChain"
    /\ enr[flt.chain] \in Malformed
    /\ outcome = Ok

\* C14 as claimed: whenever a filter returns Ignore, the reason it carries
\* is the string of that filter's own ignore_reason().
C14_ReasonIsIgnoreReason ==
    (Evaluated /\ outcome.tag = "Ignore") => outcome.reason = ignore_reason(flt)

\* C14, amended: the reason of an Ignore is the filter's own ignore_reason(),
\* except for MustIncludeFork on a record without the chain's entry, where
\* it is the ignore_reason() of the MustIncludeChain the filter holds.
C14_ReasonIsIgnoreReasonAmended ==
    (Evaluated /\ outcome.tag = "Ignore") =>
        IF flt.kind = "MustIncludeFork" /\ enr[flt.chain] = None
        THEN /\ outcome.reason = MustIncludeChain_ignore_reason(flt.chain)
             /\ outcome.reason # ignore_reason(flt)
        ELSE outcome.reason = ignore_reason(flt)

\* MustIncludeFork has ignored an entry that encodes another ForkId
C14_Witness ==
    /\ flt.kind = "MustIncludeFork"
    /\ \E f \in ForkIds : f # flt.fork_id /\ enr[flt.chain] = EncodeForkId(f)
    /\ outcome.tag = "Ignore"

\* the formatted reason has at least one character
ReasonNonEmpty(r) == \E i \in 1..Len(r) : r[i] # ""

\* C15: every evaluation ends in exactly one of Ok, OkReturnForkId(ForkId)
\* or Ignore { reason }, also on a missing or malformed entry, and the
\* reason of an Ignore is never the empty string.
C15_Total ==
    Evaluated =>
        /\ outcome.tag \in {"Ok", "OkReturnForkId", "Ignore"}
        /\ outcome.tag = "Ok" => outcome = Ok
        /\ outcome.tag = "OkReturnForkId" =>
              (outcome.fork_id \in ForkIds /\ outcome = OkReturnForkId(outcome.fork_id))
        /\ outcome.tag = "Ignore" =>
              (ReasonNonEmpty(outcome.reason) /\ outcome = Ignore(outcome.reason))

\* MustNotIncludeChains with no chain configured has ignored a record
C15_Witness ==
    /\ flt.kind = "MustNotIncludeChains" /\ flt.chains = <<>>
    /\ outcome.tag = "Ignore"

C19_TwoReasons ==
    (flt.kind = "MustIncludeFork" /\ Evaluated) =>
        /\ enr[flt.chain] = None =>
              outcome = Ignore(<<flt.chain, " fork required">>)
        /\ (enr[flt.chain] # None /\ ~IsEncodingOf(enr[flt.chain], flt.fork_id)) =>
              outcome = Ignore(<<flt.chain, " fork ">> \o DebugForkId(flt.fork_id)
                                   \o <<" required">>)

\* an entry that does not decode has been ignored
C19_Witness ==
    /\ flt.kind = "MustIncludeFork"
    /\ enr[flt.chain] \in Malformed
    /\ outcome.tag = "Ignore"
    /\ evals = 1

\* C22: is_ok() is true for the plain Ok outcome alone: false for
\* OkReturnForkId and for Ignore.  So whatever MustIncludeFork returns,
\* also for a record it lets pass, is_ok() is false, while a record that
\* MustIncludeChain or MustNotIncludeChains lets pass has is_ok() true.
C22_IsOkPlainOkOnly ==
    Evaluated =>
        /\ is_ok <=> outcome = Ok
        /\ outcome.tag \in {"OkReturnForkId", "Ignore"} => ~is_ok
        /\ flt.kind = "MustIncludeFork" => ~is_ok
        /\ (flt.kind \in {"MustIncludeChain", "MustNotIncludeChains"}
               /\ outcome.tag # "Ignore") => is_ok

\* MustIncludeFork has let a record pass with its ForkId, and is_ok() is false
C22_Witness ==
    /\ flt.kind = "MustIncludeFork"
    /\ outcome = OkReturnForkId(flt.fork_id)
    /\ ~is_ok

(***************************************************************************)
(* Properties of the merged update stream.                                 *)
(***************************************************************************)
IsV5(x) == x.tag = "V5"
IsV4(x) == x.tag = "V4"
Tagged(tag, src) == [i \in 1..Len(src) |-> DiscoveryUpdateV5_from(tag, src[i])]
Increasing(s) == \A i, j \in 1..Len(s) : i < j => s[i].ev.n < s[j].ev.n

\* C4: once the merged stream has reported its end (both sources have
\* produced their events and produce nothing more), every event of either
\* source has been yielded to the caller exactly once.
C4_AllEventsYielded ==
    (last.polled /\ last.ret = ReadyNone) =>
        /\ SelectSeq(emitted, IsV5) = Tagged("V5", src5)
        /\ SelectSeq(emitted, IsV4) = Tagged("V4", src4)

\* C5: the events of each source that the merged stream emits are a
\* subsequence of that source, in the source's order, and what an
\* UpdateStream hands on is the wrapped source's latest item, tagged.
C5_OrderPreserved ==
    /\ Increasing(SelectSeq(emitted, IsV5))
    /\ Increasing(SelectSeq(emitted, IsV4))
    /\ \A i \in 1..Len(emitted) :
          /\ emitted[i].tag = "V5" =>
                /\ emitted[i].ev.n \in 1..taken5
                /\ emitted[i] = DiscoveryUpdateV5_from("V5", src5[emitted[i].ev.n])
          /\ emitted[i].tag = "V4" =>
                /\ emitted[i].ev.n \in 1..taken4
                /\ emitted[i] = DiscoveryUpdateV5_from("V4", src4[emitted[i].ev.n])
    /\ (last.polled /\ last.obtained.some /\ last.obtained.item.tag = "V5") =>
          last.obtained.item = DiscoveryUpdateV5_from("V5", src5[taken5])
    /\ (last.polled /\ last.obtained.some /\ last.obtained.item.tag = "V4") =>
          last.obtained.item = DiscoveryUpdateV5_from("V4", src4[taken4])

\* two events of each source have been emitted, interleaved
C5_Witness ==
    /\ Len(SelectSeq(emitted, IsV5)) >= 2
    /\ Len(SelectSeq(emitted, IsV4)) >= 2
    /\ emitted[1].tag # emitted[2].tag

\* C6: a poll never leaves a waiting event in its source twice in a row,
\* whatever the other source has ready; a poll that finds an event in only
\* one source takes that one; a poll that finds none, with a source still
\* open, returns Pending.
C6_NoStarvation ==
    [][Poll =>
        /\ wait5' <= 1
        /\ wait4' <= 1
        /\ (taken5 < Len(src5) /\ taken4 = Len(src4)) => taken5' = taken5 + 1
        /\ (taken4 < Len(src4) /\ taken5 = Len(src5)) => taken4' = taken4 + 1
        /\ (taken5 = Len(src5) /\ taken4 = Len(src4) /\ ~(closed5 /\ closed4)) =>
              (last'.ret = Pending /\ taken5' = taken5 /\ taken4' = taken4)
      ]_vars

\* a discv4 update was taken while a discv5 event waited, and the discv5
\* event was taken by the poll after it
C6_Witness ==
    /\ Len(emitted) >= 2
    /\ emitted[Len(emitted) - 1].tag = "V4"
    /\ last.obtained.some /\ last.obtained.item.tag = "V5"
    /\ wait5 = 0 /\ wait4 = 1

\* C7: a poll that obtains a SessionEstablished event whose record has no
\* contactable IPv4 socket but a contactable IPv6 socket returns Pending,
\* wakes the task's waker, and sends no signal.
C7_Deferral ==
    (last.polled /\ IsSessionEstablished(last.obtained)
        /\ ~last.obtained.item.ev.udp4 /\ last.obtained.item.ev.udp6) =>
        /\ last.ret = Pending
        /\ last.woke
        /\ last.sends = 0

\* such an event was obtained while a receiver of the signal remains
C7_Witness ==
    /\ last.polled /\ IsSessionEstablished(last.obtained)
    /\ ~last.obtained.item.ev.udp4 /\ last.obtained.item.ev.udp6
    /\ kbuckets_change.rx_alive

\* C8: a poll that obtains a SessionEstablished event whose record has a
\* contactable IPv4 socket, or no contactable socket at all, sends exactly
\* once on the watch channel and returns Ready with the event as obtained
\* from the source, also when the send fails for want of a receiver.
C8_SignalThenEmit ==
    (last.polled /\ IsSessionEstablished(last.obtained)
        /\ (last.obtained.item.ev.udp4 \/ ~last.obtained.item.ev.udp6)) =>
        /\ last.sends = 1
        /\ last.ret = ReadySome(DiscoveryUpdateV5_from("V5", src5[taken5]))
        /\ emitted # <<>> /\ emitted[Len(emitted)] = last.ret.item

\* the send failed, no receiver being left, and the event was returned
C8_Witness ==
    /\ last.polled /\ IsSessionEstablished(last.obtained)
    /\ ~last.obtained.item.ev.udp4 /\ ~last.obtained.item.ev.udp6
    /\ ~last.send_ok
    /\ last.ret.some

\* C9: a poll that obtains anything but a discv5 SessionEstablished event
\* (a discv4 update, another discv5 event, the end of the stream) returns
\* it Ready at once and leaves the watch channel as it was.
C9_OthersPassThrough ==
    [][(Poll /\ last'.obtained.poll = "Ready"
             /\ ~(last'.obtained.some /\ last'.obtained.item.tag = "V5"
                    /\ last'.obtained.item.ev.kind = "SessionEstablished")) =>
        /\ last'.ret = last'.obtained
        /\ last'.sends = 0
        /\ kbuckets_change' = kbuckets_change
      ]_vars

\* a discv5 event of another kind was returned while the receiver, having
\* seen every signal, would have noticed a send
C9_Witness ==
    /\ last.polled /\ last.ret.some
    /\ last.ret.item.tag = "V5" /\ last.ret.item.ev.kind = "Discovered"
    /\ kbuckets_change = [unseen |-> 0, rx_alive |-> TRUE]

\* C10: the signal is a single slot: at most one notification is ever
\* waiting for the discv4 receiver, however many signals were delivered
\* since it last looked.
C10_SingleSlot ==
    /\ kbuckets_change.unseen <= 1
    /\ sends_since_read > 0 => kbuckets_change.unseen = 1

\* two signals were delivered between two reads
C10_Witness ==
    /\ sends_since_read >= 2
    /\ kbuckets_change.unseen = 1

\* C18: the event of a deferral is taken out of its source and kept
\* nowhere: the poll after a deferral obtains, if anything from discv5, a
\* later event of the source, and no event that was deferred is ever among
\* the events emitted to the caller.
C18_DeferredNotRetained ==
    /\ [](\A i \in 1..Len(emitted) :
             ~Deferred(ReadySome(emitted[i])))
    /\ []((last.polled /\ Deferred(last.obtained)) =>
             (last.obtained.item.ev.n = taken5 /\ last.ret = Pending))
    /\ [][(Poll /\ last.polled /\ Deferred(last.obtained)) =>
            /\ last'.obtained # last.obtained
            /\ (last'.obtained.poll = "Ready" /\ last'.obtained.some
                    /\ last'.obtained.item.tag = "V5") =>
                  last'.obtained.item.ev.n > last.obtained.item.ev.n
            /\ emitted' \in {emitted} \cup
                  {Append(emitted, DiscoveryUpdateV5_from("V5", src5[k])) :
                       k \in (last.obtained.item.ev.n + 1)..Len(src5)} \cup
                  {Append(emitted, DiscoveryUpdateV5_from("V4", src4[k])) :
                       k \in 1..Len(src4)}
         ]_vars

\* the first discv5 event was deferred, the second one was emitted by a
\* later poll, and the first is not among the emitted events
C18_Witness ==
    /\ Len(src5) = 2
    /\ Deferred(ReadySome(DiscoveryUpdateV5_from("V5", src5[1])))
    /\ taken5 = 2
    /\ \E i \in 1..Len(emitted) : emitted[i].tag = "V5" /\ emitted[i].ev.n = 2
    /\ \A i \in 1..Len(emitted) : ~(emitted[i].tag = "V5" /\ emitted[i].ev.n = 1)

(***************************************************************************)
(* Properties of the handle.                                               *)
(***************************************************************************)
IsModern(c) == c.sys = "discv5"
IsLegacy(c) == c.sys = "discv4"

\* C11: ban_peer_by_ip_and_node_id with an identity whose translation fails
\* makes no identity ban in discv5, still bans the address in discv5, and
\* calls discv4 with the untranslated identity and the address; when the
\* translation succeeds, discv5 bans the translated identity and the
\* address, and discv4 is called the same way.
C11_BanFallsBack ==
    hcall.op = "ban_peer_by_ip_and_node_id" =>
        /\ hlog[Len(hlog)] = Call("discv4", "ban_peer_by_ip_and_node_id",
                                  [NoArgs EXCEPT !.peer = hcall.args.peer,
                                                 !.ip = hcall.args.ip])
        /\ hcall.args.peer \in discv4.banned_ids
        /\ hcall.args.ip \in discv4.banned_ips
        /\ hcall.args.ip \in discv5.banned_ips
        /\ SelectSeq(hlog, IsLegacy) = <<hlog[Len(hlog)]>>
        /\ IF OnCurve(hcall.args.peer)
           THEN /\ SelectSeq(hlog, IsModern) =
                      <<Call("discv5", "ban_node",
                             [NoArgs EXCEPT !.node = <<2 + (hcall.args.peer[2] % 2),
                                                       hcall.args.peer[1]>>]),
                        Call("discv5", "ban_ip", [NoArgs EXCEPT !.ip = hcall.args.ip])>>
                /\ <<2 + (hcall.args.peer[2] % 2), hcall.args.peer[1]>>
                      \in discv5.banned_nodes
           ELSE SelectSeq(hlog, IsModern) =
                      <<Call("discv5", "ban_ip", [NoArgs EXCEPT !.ip = hcall.args.ip])>>

\* a peer whose identity does not translate was banned: discv5 has its
\* address and no identity, discv4 has both
C11_Witness ==
    /\ hcall.op = "ban_peer_by_ip_and_node_id"
    /\ ~OnCurve(hcall.args.peer)
    /\ ncalls = 1
    /\ discv5.banned_nodes = {} /\ discv5.banned_ips = {hcall.args.ip}
    /\ discv4.banned_ids = {hcall.args.peer}

\* C12: set_eip868_in_local_enr hands exactly (key, value) to discv4 on
\* every call; discv5's local record is only touched when the key is valid
\* UTF-8; an invalid key or a refused discv5 insert does not keep the call
\* from reaching discv4.
C12_LocalEnr ==
    [][SetEip868InLocalEnr =>
        /\ SelectSeq(hlog', IsLegacy) =
              <<Call("discv4", "set_eip868_in_local_enr",
                     [NoArgs EXCEPT !.key = hcall'.args.key, !.val = hcall'.args.val])>>
        /\ IsLegacy(hlog'[Len(hlog')])
        /\ <<hcall'.args.key, hcall'.args.val>> \in discv4'.local_enr
        /\ (discv5' # discv5) => from_utf8_is_ok(hcall'.args.key)
        /\ (SelectSeq(hlog', IsModern) # <<>>) <=> from_utf8_is_ok(hcall'.args.key)
        /\ (from_utf8_is_ok(hcall'.args.key) /\ hcall'.lib_ok) =>
              <<hcall'.args.key, hcall'.args.val>> \in discv5'.local_enr
        /\ ~hcall'.lib_ok => discv5' = discv5
      ]_vars

\* an entry under a key that is not UTF-8 is in discv4's record alone
C12_Witness ==
    /\ hcall.op = "set_eip868_in_local_enr"
    /\ ~from_utf8_is_ok(hcall.args.key)
    /\ <<hcall.args.key, hcall.args.val>> \in discv4.local_enr
    /\ discv5.local_enr = {}

C17_BansInSync ==
    /\ discv5.banned_ips = discv4.banned_ips
    /\ discv5.banned_nodes =
          {<<2 + (q[2] % 2), q[1]>> : q \in {p \in discv4.banned_ids : OnCurve(p)}}
    /\ \A i, j \in 1..Len(hlog) :
          (IsModern(hlog[i]) /\ IsLegacy(hlog[j])) => i < j

\* three peers were banned, two of them with identities that translate,
\* through both addresses
C17_Witness ==
    /\ ncalls = 3
    /\ discv4.banned_ids = PeerIds
    /\ Cardinality(discv5.banned_nodes) = 2
    /\ discv5.banned_ips = IpAddrs

(***************************************************************************)
(* Properties of group_by_block.                                           *)
(***************************************************************************)
\* the addresses of a group
Members(vec) == {vec[i] : i \in 1..Len(vec)}

\* C20: when no mode's prune target fails, group_by_block puts every
\* configured address in exactly one group, the one whose key is
\* max(pruned_block + 1, target + 1), with the target 0 when there is
\* nothing to prune and pruned_block 0 when absent, so every key is at
\* least pruned_block + 1; when a mode's target fails the call returns the
\* error and no map.
C20_GroupByBlock ==
    grouped.called =>
        IF \A a \in DOMAIN config : config[a].target.ok
        THEN /\ grouped.ok
             /\ \A k \in DOMAIN grouped.map :
                   /\ grouped.map[k] # <<>>
                   /\ Members(grouped.map[k]) \subseteq DOMAIN config
                   /\ k >= (IF pruned_block = NoBlock THEN 0 ELSE pruned_block) + 1
             /\ \A a \in DOMAIN config :
                   \A k \in DOMAIN grouped.map :
                      Cardinality({i \in 1..Len(grouped.map[k]) : grouped.map[k][i] = a}) =
                         IF k = Max((IF pruned_block = NoBlock THEN 0 ELSE pruned_block) + 1,
                                    (IF config[a].target.some
                                     THEN config[a].target.block ELSE 0) + 1)
                         THEN 1 ELSE 0
             /\ \A a \in DOMAIN config : \E k \in DOMAIN grouped.map :
                   a \in Members(grouped.map[k])
        ELSE ~grouped.ok /\ grouped.map = EmptyMap

\* three addresses in two groups: one lifted to pruned_block + 1 together
\* with one that has nothing to prune, one above at its own target
C20_Witness ==
    /\ grouped.called /\ grouped.ok
    /\ pruned_block = 1
    /\ DOMAIN config = Addresses
    /\ config["0xa1"].target = TargetSome(0)
    /\ config["0xb2"].target = TargetSome(2)
    /\ config["0xc3"].target = TargetNone
    /\ DOMAIN grouped.map = {2, 3}
    /\ grouped.map[2] = <<"0xa1", "0xc3">>
    /\ grouped.map[3] = <<"0xb2">>

\* a source has ended: its sender is dropped and its events are all taken
Ended5 == closed5 /\ taken5 = Len(src5)
Ended4 == closed4 /\ taken4 = Len(src4)

====
